---------------------------- MODULE Spec2Model ----------------------------
(***************************************************************************)
(* Model of src/news.py: one invocation of collect() after another against *)
(* one worksheet.                                                          *)
(*                                                                         *)
(* Strings are sequences of tokens.  A token is an atomic piece of text    *)
(* (" " is one whitespace character, "\"" one double quote, "www." the     *)
(* four characters w w w .); the token alphabet is chosen so that no       *)
(* pattern the code searches for (whitespace, a quote, "www.",             *)
(* "HYPERLINK(", "<", ">") starts or ends inside a token.  The Korean      *)
(* literals of the source are written in Latin letters, since the module   *)
(* is ASCII: "ilsi" (A1), "nyuseujemok" (B1), "yoyak" (C1), "chulcheo"     *)
(* (D1), "kiwodeu" (E1), "lingkeu" (the label of line 143).                *)
(*                                                                         *)
(* A cell is a record [k, t, s]: k = "text" with the token string s,       *)
(* k = "time" with t the minute the cell shows (the sheet parses the       *)
(* "YYYY-MM-DD HH:MM" text written with USER_ENTERED as a date-time).      *)
(* Time is counted in minutes, the precision of that text.                 *)
(***************************************************************************)
EXTENDS Integers, Sequences, FiniteSets, TLC

(***************************************************************************)
(* Bounds of the model.                                                    *)
(***************************************************************************)
\* collect() is invoked at most MaxRuns times, one invocation after another.
MaxRuns == 2
\* At most MaxFaults I/O failures are injected in one behaviour.
MaxFaults == 1
\* The registry is cut to its first NumSources sources.
NumSources == 2
\* A feed snapshot holds at most MaxEntries entries over all its sources.
MaxEntries == 3
\* The clock shows at most minute MaxNow (UTC).
MaxNow == 1

(***************************************************************************)
(* Program constants.                                                      *)
(***************************************************************************)
\* DEDUP_LIMIT = 2000 in the source; the window is scaled down so that the
\* history can outgrow it.
DEDUP_LIMIT == 2
\* ZoneInfo("Asia/Seoul") is UTC+9 with no daylight saving: 540 minutes.
KstOffset == 540
\* add_worksheet(..., cols=10)
NewSheetCols == 10

HEADERS == << <<"ilsi">>, <<"nyuseujemok">>, <<"yoyak">>, <<"chulcheo">>, <<"kiwodeu">> >>

\* The (tag) column of rss_urls(), in the order the function builds it.
rss_urls ==
  << "GoogleNews:apgujeong", "GoogleNews:budongsan", "GoogleNews:jaegeonchuk",
     "GoogleNews:budongsan segeum", "GoogleNews:boyuse",
     "GoogleNews:budongsanjeongchaek", "GoogleNews:budongsangyuje",
     "GoogleNews:daechulgyuje", "GoogleNews:daechuljeongchaek",
     "GoogleNews:gagyebuchae", "GoogleNews:gijungeumri",
     "GoogleNews:jeonsedaechul", "GoogleNews:judamdae", "GoogleNews:gyujejiyeok",
     "NaverNews", "DaumNews", "maeilgyeongje budongsan", "hangukgyeongje budongsan" >>

\* The sources one modelled run polls: the first NumSources of the registry.
Sources == SubSeq(rss_urls, 1, NumSources)

(***************************************************************************)
(* Strings.                                                                *)
(***************************************************************************)
IsSpace(c) == c = " "

RECURSIVE LStrip(_)
LStrip(s) == IF s # <<>> /\ IsSpace(Head(s)) THEN LStrip(Tail(s)) ELSE s

RECURSIVE RStrip(_)
RStrip(s) ==
  IF s # <<>> /\ IsSpace(s[Len(s)]) THEN RStrip(SubSeq(s, 1, Len(s) - 1)) ELSE s

\* str.strip()
Strip(s) == RStrip(LStrip(s))

\* str.replace(old, new) for a one-token old; new is a string (maybe empty).
RECURSIVE Replace(_, _, _)
Replace(s, old, new) ==
  IF s = <<>> THEN <<>>
  ELSE (IF Head(s) = old THEN new ELSE <<Head(s)>>) \o Replace(Tail(s), old, new)

\* The longest prefix of s with no token in stop.
RECURSIVE TakeUntil(_, _)
TakeUntil(s, stop) ==
  IF s = <<>> \/ Head(s) \in stop THEN <<>>
  ELSE <<Head(s)>> \o TakeUntil(Tail(s), stop)

\* The index of the first token of s in stop, 0 when there is none.
RECURSIVE IndexOf(_, _)
IndexOf(s, stop) ==
  IF s = <<>> THEN 0
  ELSE IF Head(s) \in stop THEN 1
  ELSE LET r == IndexOf(Tail(s), stop) IN IF r = 0 THEN 0 ELSE r + 1

\* re.sub(r"<[^>]+>", "", s).strip()
RECURSIVE RemoveTags(_)
RemoveTags(s) ==
  IF s = <<>> THEN <<>>
  ELSE LET close == IndexOf(Tail(s), {">"})
       IN IF Head(s) = "<" /\ close >= 2
          THEN RemoveTags(SubSeq(s, close + 2, Len(s)))
          ELSE <<Head(s)>> \o RemoveTags(Tail(s))

strip_html(s) == IF s = <<>> THEN <<>> ELSE Strip(RemoveTags(s))


(***************************************************************************)
(* Links and the display formula.                                          *)
(***************************************************************************)
SchemeTokens == {"http://", "https://"}

\* The tokens that end the network location of a URL: they start with one of / ? #
PathTokens == {"/", "/1", "/2", "?", "#"}

\* The tokens "scheme://" that may open a URL.
UrlSchemeTokens == SchemeTokens \cup {"ftp://"}

\* urlparse(url).netloc: what stands between the "//" of the scheme and the
\* next "/", "?" or "#"; empty when the URL has no "scheme://".
Netloc(url) ==
  IF url # <<>> /\ Head(url) \in UrlSchemeTokens THEN TakeUntil(Tail(url), PathTokens)
  ELSE <<>>

InRange(s) == {s[i] : i \in DOMAIN s}

\* urlparse raises ValueError("Invalid IPv6 URL") on an unbalanced bracket in
\* the network location.
UrlparseRaises(url) ==
  LET n == InRange(Netloc(url))
  IN ("[" \in n /\ "]" \notin n) \/ ("]" \in n /\ "[" \notin n)

\* make_hyperlink, lines 139-143: the label.
LinkLabel(url) ==
  IF UrlparseRaises(url) THEN <<"lingkeu">>
  ELSE LET netloc == IF Netloc(url) # <<>> THEN Netloc(url) ELSE url
       IN Replace(netloc, "www.", <<>>)

make_hyperlink(url) ==
  IF url = <<>> THEN <<>>
  ELSE LET safe_url == Replace(url, "\"", <<"%22">>)
           safe_text == Replace(LinkLabel(url), "\"", <<"'">>)
       IN <<"=HYPERLINK(", "\"">> \o safe_url \o <<"\"", ",", "\"">> \o safe_text
            \o <<"\"", ")">>

\* The tokens the pattern HYPERLINK\( matches at their end (re.IGNORECASE).
HyperlinkOpen == {"=HYPERLINK(", "=hyperlink("}

\* re.search(r'HYPERLINK\("([^"]+)"', cell): group 1 of the leftmost match,
\* <<>> standing for "no match" (a match's group is never empty).
RECURSIVE HyperlinkGroup(_)
HyperlinkGroup(cell) ==
  IF Len(cell) < 2 THEN <<>>
  ELSE LET rest == SubSeq(cell, 3, Len(cell))
           close == IndexOf(rest, {"\""})
       IN IF Head(cell) \in HyperlinkOpen /\ cell[2] = "\"" /\ close >= 2
          THEN SubSeq(rest, 1, close - 1)
          ELSE HyperlinkGroup(Tail(cell))

parse_hyperlink_formula(cell) ==
  IF cell = <<>> THEN <<>>
  ELSE IF HyperlinkGroup(cell) # <<>> THEN Strip(HyperlinkGroup(cell))
  ELSE Strip(cell)

\* What the sheet shows for a cell (render option FORMATTED_VALUE, the default
\* of col_values): the label of a HYPERLINK formula, the text itself otherwise.
DisplayValue(cell) ==
  LET q1 == IndexOf(SubSeq(cell, 3, Len(cell)), {"\""}) + 2
  IN IF /\ Len(cell) >= 7
        /\ cell[1] \in HyperlinkOpen /\ cell[2] = "\""
        /\ q1 > 2 /\ Len(cell) >= q1 + 4
        /\ cell[q1 + 1] = "," /\ cell[q1 + 2] = "\""
        /\ cell[Len(cell) - 1] = "\"" /\ cell[Len(cell)] = ")"
     THEN SubSeq(cell, q1 + 3, Len(cell) - 2)
     ELSE cell

(***************************************************************************)
(* The worksheet.                                                          *)
(***************************************************************************)
Txt(s) == [k |-> "text", t |-> 0, s |-> s]
Tm(n) == [k |-> "time", t |-> n, s |-> <<>>]

\* What a read of the cell's value returns: the text, or the rendering of a
\* date-time, which is never empty and no header or title of the model.
CellText(c) == IF c.k = "time" THEN <<"YYYY-MM-DD HH:MM">> ELSE DisplayValue(c.s)

\* What a read with value_render_option='FORMULA' returns.
CellFormula(c) == IF c.k = "time" THEN <<"YYYY-MM-DD HH:MM">> ELSE c.s

\* The cell of row r in column c; an empty cell where the row ends before c.
CellAt(r, c) == IF c <= Len(r) THEN r[c] ELSE Txt(<<>>)

\* ws.get_values("A1:E1")[0]: the first five values of row 1, or <<>> (the
\* API returns no row) when they are all empty.
HeaderValues(grid) ==
  IF grid = <<>> \/ \A c \in 1..Len(HEADERS) : CellText(CellAt(grid[1], c)) = <<>>
  THEN <<>>
  ELSE [c \in 1..Len(HEADERS) |-> CellText(CellAt(grid[1], c))]

\* UpdateHeader cutting row 1 to the five header cells.
UpdateHeaderTrimming(grid) ==
  LET new == [c \in 1..Len(HEADERS) |-> Txt(HEADERS[c])]
  IN IF grid = <<>> THEN <<new>> ELSE <<new>> \o Tail(grid)

\* ws.update("A1:E1", [HEADERS]): cells A1..E1 are overwritten, the rest of
\* row 1 and all other rows are kept.
UpdateHeader(grid) ==
  LET old == IF grid = <<>> THEN <<>> ELSE grid[1]
      new == [c \in 1..(IF Len(old) > Len(HEADERS) THEN Len(old) ELSE Len(HEADERS)) |->
                IF c <= Len(HEADERS) THEN Txt(HEADERS[c]) ELSE old[c]]
  IN IF grid = <<>> THEN <<new>> ELSE <<new>> \o Tail(grid)

\* ws.col_values(c)[1:]: the values of column c below row 1.
ColValuesBelowHeader(grid, c) ==
  IF Len(grid) <= 1 THEN <<>>
  ELSE [i \in 1..(Len(grid) - 1) |-> CellText(CellAt(grid[i + 1], c))]

\* ws.get('D2:D', value_render_option='FORMULA'), each row's first value
\* (<<>> for a row the API returns empty).
FormulasBelowHeader(grid, c) ==
  IF Len(grid) <= 1 THEN <<>>
  ELSE [i \in 1..(Len(grid) - 1) |-> CellFormula(CellAt(grid[i + 1], c))]

\* [f(x) for x in s if x]
RECURSIVE NonEmpty(_)
NonEmpty(s) ==
  IF s = <<>> THEN <<>>
  ELSE (IF Head(s) # <<>> THEN <<Head(s)>> ELSE <<>>) \o NonEmpty(Tail(s))

\* s[-n:]; Python's s[-0:] is the whole list.
LastN(s, n) ==
  IF n = 0 \/ Len(s) <= n THEN s ELSE SubSeq(s, Len(s) - n + 1, Len(s))

MapStrip(s) == [i \in DOMAIN s |-> Strip(s[i])]
MapParse(s) == [i \in DOMAIN s |-> parse_hyperlink_formula(s[i])]

\* get_existing_sets, line 115: titles = [t.strip() for t in titles if t][-limit:]
WindowTitles(titles, limit) == LastN(MapStrip(NonEmpty(titles)), limit)

\* get_existing_sets, lines 107 and 116.
WindowLinks(links, limit) == LastN(MapStrip(NonEmpty(links)), limit)

\* get_existing_sets(ws, limit) with the outcome of its three reads:
\* titlesOK (line 100), formulasOK (line 105), fallbackOK (line 111).
get_existing_sets(grid, limit, titlesOK, formulasOK, fallbackOK) ==
  LET titles == IF titlesOK THEN ColValuesBelowHeader(grid, 2) ELSE <<>>
      links == IF formulasOK THEN MapParse(NonEmpty(FormulasBelowHeader(grid, 4)))
               ELSE IF fallbackOK THEN ColValuesBelowHeader(grid, 4)
               ELSE <<>>
  IN [titles |-> InRange(WindowTitles(titles, limit)),
      links |-> InRange(WindowLinks(links, limit))]

\* The order of the sheet's ascending sort on a cell: date-times by value, then
\* text, then empty cells.  Texts compare equal here (the only text the runs
\* put in column A is the header's).
SortRank(c) == IF c.k = "time" THEN 0 ELSE IF c.s # <<>> THEN 1 ELSE 2
SortLess(a, b) ==
  \/ SortRank(a) < SortRank(b)
  \/ a.k = "time" /\ b.k = "time" /\ a.t < b.t

\* Stable insertion of row r into the sorted rows s, by column col.
RECURSIVE InsertSorted(_, _, _)
InsertSorted(r, s, col) ==
  IF s = <<>> THEN <<r>>
  ELSE IF SortLess(CellAt(r, col), CellAt(Head(s), col)) THEN <<r>> \o s
  ELSE <<Head(s)>> \o InsertSorted(r, Tail(s), col)

RECURSIVE SortRows(_, _)
SortRows(s, col) ==
  IF s = <<>> THEN <<>>
  ELSE InsertSorted(s[Len(s)], SortRows(SubSeq(s, 1, Len(s) - 1), col), col)

\* ws.sort((1, 'asc')): gspread sorts the rows below the frozen ones.
SortSheet(grid, frozen) ==
  SubSeq(grid, 1, frozen) \o SortRows(SubSeq(grid, frozen + 1, Len(grid)), 1)

(***************************************************************************)
(* Entries.  A raw entry is what feedparser exposes: title, link, id,      *)
(* links (the href of each link record), summary and published_parsed      *)
(* ([kind |-> "none"]: absent, "bad": a tuple datetime() rejects, "ok": a  *)
(* time tuple, t its minute in UTC).                                       *)
(***************************************************************************)
Pub(kind, t) == [kind |-> kind, t |-> t]

RawEntry(title, link, id, links, summary, published) ==
  [title |-> title, link |-> link, id |-> id, links |-> links,
   summary |-> summary, published |-> published]

\* to_kst without the fallback on the clock.
to_kstNoFallback(e, clock) == e.published.t + KstOffset

\* to_kst(entry), as the minute the rendered text shows; now is the clock (UTC).
to_kst(e, clock) ==
  IF e.published.kind = "ok" THEN e.published.t + KstOffset ELSE clock + KstOffset

\* EntryTitle without the strip().
EntryTitleUnstripped(e) == e.title

\* Line 161: title = (getattr(e, "title", "") or "").strip()
EntryTitle(e) == Strip(e.title)

\* EntryLink falling back on the entry's id.
EntryLinkOrId(e) == IF Strip(e.link) # <<>> THEN Strip(e.link) ELSE Strip(e.id)

\* Line 162: link = (getattr(e, "link", "") or "").strip()
EntryLink(e) == Strip(e.link)

\* IsDuplicate without the test of the title.
IsDuplicateByLinkOnly(title, link, titles, links, seen) ==
  link # <<>> /\ (link \in links \/ link \in seen)

\* IsDuplicate without the tests of the link.
IsDuplicateByTitleOnly(title, link, titles, links, seen) == title \in titles

\* IsDuplicate asking for both a title match and a link match.
IsDuplicateBothMatch(title, link, titles, links, seen) ==
  title \in titles /\ (link # <<>> /\ (link \in links \/ link \in seen))

\* Line 166, the condition under which the entry is skipped.
IsDuplicate(title, link, titles, links, seen) ==
  title \in titles \/ (link # <<>> /\ (link \in links \/ link \in seen))

\* MakeRow in the four-column layout, with no summary cell.
MakeRowWithoutSummary(e, clock, tag) ==
  << Tm(to_kst(e, clock)), Txt(EntryTitle(e)), Txt(make_hyperlink(EntryLink(e))),
     Txt(<<tag>>) >>

\* Line 171: the row of one admitted entry.
MakeRow(e, clock, tag) ==
  << Tm(to_kst(e, clock)), Txt(EntryTitle(e)), Txt(strip_html(e.summary)),
     Txt(make_hyperlink(EntryLink(e))), Txt(<<tag>>) >>

(***************************************************************************)
(* State.                                                                  *)
(***************************************************************************)
VARIABLES
  SPREADSHEET_ID,   \* TRUE when the environment variable is set and non-empty
  feeds,            \* the feed snapshot: source index -> entries
  sheet,            \* the worksheet: [exists, cols, frozen, grid]
  now,              \* the clock, in minutes (UTC)
  run,              \* the number of the current invocation of collect()
  pc,               \* where the current invocation stands
  existing_titles, existing_links, seen_links, rows,   \* locals of collect()
  src,              \* the number of sources fetched so far in the loop of line 158
  feed,             \* feed.entries of the source being processed
  k,                \* the index in feed of the next entry
  got,              \* per source fetched in this invocation: [ok, entries]
  taken,            \* the <<source, index>> of every entry admitted in it
  loaded,           \* get_existing_sets in it: the outcome of its reads, its result
  calls,            \* the sheet and feed calls issued in it, in order
  failed,           \* those of them that failed, in order
  out,              \* the inserted=N summary lines printed so far (all runs)
  ended,            \* how each earlier invocation ended: the last value of its pc
  faults            \* the number of failures so far (I/O errors, the process stopped)

vars == << SPREADSHEET_ID, feeds, sheet, now, run, pc, existing_titles,
           existing_links, seen_links, rows, src, feed, k, got, taken, loaded,
           calls, failed, out, ended, faults >>

locals == << existing_titles, existing_links, seen_links, rows, src, feed, k,
             got, taken, loaded >>

NotLoaded == [done |-> FALSE, titlesOK |-> FALSE, formulasOK |-> FALSE,
              fallbackOK |-> FALSE, titles |-> {}, links |-> {}]

\* A failure may be injected while the budget lasts.
MayFail == faults < MaxFaults

(***************************************************************************)
(* collect(), step by step.                                                *)
(***************************************************************************)
\* CheckConfig without the test of line 150.
CheckConfigUnchecked ==
  /\ pc = "start"
  /\ pc' = "auth"
  /\ UNCHANGED << SPREADSHEET_ID, feeds, ended, sheet, now, run, locals, calls, failed, out, faults >>

\* Lines 150-151.
CheckConfig ==
  /\ pc = "start"
  /\ pc' = IF SPREADSHEET_ID THEN "auth" ELSE "raised"
  /\ UNCHANGED << SPREADSHEET_ID, feeds, ended, sheet, now, run, locals, calls, failed, out, faults >>

\* auth_sheet() to its return; freezeOK is the outcome of ws.freeze.
AuthSheetTo(freezeOK) ==
  LET created == IF sheet.exists THEN sheet
                 ELSE [exists |-> TRUE, cols |-> NewSheetCols, frozen |-> 0,
                       grid |-> <<>>]
      write == HeaderValues(created.grid) # HEADERS
      grid1 == IF write THEN UpdateHeader(created.grid) ELSE created.grid
  IN /\ sheet' = [created EXCEPT !.grid = grid1,
                                 !.frozen = IF freezeOK THEN 1 ELSE @]
     /\ calls' = calls \o <<"open">>
                   \o (IF sheet.exists THEN <<>> ELSE <<"add_worksheet">>)
                   \o <<"get_values">>
                   \o (IF write THEN <<"update">> ELSE <<>>)
                   \o <<"freeze">>

\* Line 153, auth_sheet() returning.
AuthSheet ==
  /\ pc = "auth"
  /\ \/ AuthSheetTo(TRUE) /\ UNCHANGED << faults, failed >>
     \/ MayFail /\ AuthSheetTo(FALSE) /\ faults' = faults + 1
          /\ failed' = Append(failed, "freeze")
  /\ pc' = "load"
  /\ UNCHANGED << SPREADSHEET_ID, feeds, ended, now, run, locals, out >>

\* Line 153, auth_sheet() raising: the credentials, open_by_key, the header
\* read or the header write fail, none of which the code catches.
AuthSheetRaises ==
  /\ pc = "auth"
  /\ MayFail
  /\ faults' = faults + 1
  /\ calls' = calls \o <<"open">>
  /\ failed' = Append(failed, "open")
  /\ pc' = "raised"
  /\ UNCHANGED << SPREADSHEET_ID, feeds, ended, sheet, now, run, locals, out >>

\* Line 154.
LoadIndex ==
  /\ pc = "load"
  /\ \E titlesOK, formulasOK, fallbackOK \in BOOLEAN :
       LET nfail == (IF titlesOK THEN 0 ELSE 1)
                    + (IF formulasOK THEN 0 ELSE IF fallbackOK THEN 1 ELSE 2)
           sets == get_existing_sets(sheet.grid, DEDUP_LIMIT, titlesOK, formulasOK,
                                     fallbackOK)
       IN /\ formulasOK => fallbackOK      \* the fallback runs only after a failure
          /\ faults + nfail <= MaxFaults
          /\ faults' = faults + nfail
          /\ existing_titles' = sets.titles
          /\ existing_links' = sets.links
          /\ loaded' = [done |-> TRUE, titlesOK |-> titlesOK,
                        formulasOK |-> formulasOK, fallbackOK |-> fallbackOK,
                        titles |-> sets.titles, links |-> sets.links]
          /\ calls' = calls \o <<"col_values", "get">>
                        \o (IF formulasOK THEN <<>> ELSE <<"col_values">>)
          /\ failed' = failed \o (IF titlesOK THEN <<>> ELSE <<"col_values">>)
                          \o (IF formulasOK THEN <<>> ELSE <<"get">>)
                          \o (IF fallbackOK THEN <<>> ELSE <<"col_values">>)
  /\ pc' = IF NumSources = 0 THEN "print" ELSE "fetch"
  /\ UNCHANGED << SPREADSHEET_ID, feeds, ended, sheet, now, run, seen_links, rows, src,
                  feed, k, got, taken, out >>

\* AfterEntry going on to the append as soon as one source has yielded a batch.
AfterEntryAppendsEarly(s, entries, next, batch) ==
  IF next <= Len(entries) THEN "entries"
  ELSE IF batch # <<>> THEN "append"
  ELSE IF s < NumSources THEN "fetch"
  ELSE "print"

\* AfterEntry going on to the append with an empty batch too.
AfterEntryAlwaysAppends(s, entries, next, batch) ==
  IF next <= Len(entries) THEN "entries"
  ELSE IF s < NumSources THEN "fetch"
  ELSE "append"

\* Where collect() stands once entry k - 1 of the feed of source s is done.
AfterEntry(s, entries, next, batch) ==
  IF next <= Len(entries) THEN "entries"
  ELSE IF s < NumSources THEN "fetch"
  ELSE IF batch # <<>> THEN "append"
  ELSE "print"

\* ParseFeed handing out the entries of a feed that failed.
ParseFeedIgnoringFailure(s, ok) == feeds[s]

\* Line 159 with its outcome: the entries feedparser returns for source s.
\* feedparser reports a failed download or a malformed document in the
\* result (bozo) instead of raising; the failed feed has no entries.
ParseFeed(s, ok) == IF ok THEN feeds[s] ELSE <<>>

\* Lines 158-159: the next source is fetched and parsed.
FetchFeed ==
  /\ pc = "fetch"
  /\ src < NumSources
  /\ \E ok \in BOOLEAN :
       /\ ok \/ MayFail
       /\ faults' = IF ok THEN faults ELSE faults + 1
       /\ failed' = IF ok THEN failed ELSE Append(failed, "parse")
       /\ feed' = ParseFeed(src + 1, ok)
       /\ got' = Append(got, [ok |-> ok, entries |-> ParseFeed(src + 1, ok)])
       /\ pc' = AfterEntry(src + 1, ParseFeed(src + 1, ok), 1, rows)
  /\ src' = src + 1
  /\ k' = 1
  /\ calls' = Append(calls, "parse")
  /\ UNCHANGED << SPREADSHEET_ID, feeds, ended, sheet, now, run, existing_titles,
                  existing_links, seen_links, rows, taken, loaded, out >>

\* ProcessEntry without line 175: the link goes to seen_links only.
ProcessEntryLinkSeenOnly ==
  /\ pc = "entries"
  /\ LET e == feed[k]
         title == EntryTitle(e)
         link == EntryLink(e)
         skip == title = <<>>
                 \/ IsDuplicate(title, link, existing_titles, existing_links, seen_links)
     IN \/ /\ skip
           /\ pc' = AfterEntry(src, feed, k + 1, rows)
           /\ UNCHANGED << now, rows, existing_titles, existing_links, seen_links, taken >>
        \/ /\ ~skip
           /\ \E clock \in now..MaxNow :
                /\ now' = IF e.published.kind = "ok" THEN now ELSE clock
                /\ rows' = Append(rows, MakeRow(e, now', Sources[src]))
           /\ existing_titles' = existing_titles \cup {title}
           /\ existing_links' = existing_links
           /\ seen_links' = IF link # <<>> THEN seen_links \cup {link} ELSE seen_links
           /\ taken' = Append(taken, <<src, k>>)
           /\ pc' = AfterEntry(src, feed, k + 1, rows')
  /\ k' = k + 1
  /\ UNCHANGED << SPREADSHEET_ID, feeds, ended, sheet, run, src, feed, got, loaded, calls,
                  failed, out, faults >>

\* Lines 160-176: one entry of the current feed.
ProcessEntry ==
  /\ pc = "entries"
  /\ LET e == feed[k]
         title == EntryTitle(e)
         link == EntryLink(e)
         skip == title = <<>>
                 \/ IsDuplicate(title, link, existing_titles, existing_links, seen_links)
     IN \/ /\ skip
           /\ pc' = AfterEntry(src, feed, k + 1, rows)
           /\ UNCHANGED << now, rows, existing_titles, existing_links, seen_links, taken >>
        \/ /\ ~skip
           /\ \E clock \in now..MaxNow :
                /\ now' = IF e.published.kind = "ok" THEN now ELSE clock
                /\ rows' = Append(rows, MakeRow(e, now', Sources[src]))
           /\ existing_titles' = existing_titles \cup {title}
           /\ existing_links' = IF link # <<>> THEN existing_links \cup {link}
                                ELSE existing_links
           /\ seen_links' = IF link # <<>> THEN seen_links \cup {link} ELSE seen_links
           /\ taken' = Append(taken, <<src, k>>)
           /\ pc' = AfterEntry(src, feed, k + 1, rows')
  /\ k' = k + 1
  /\ UNCHANGED << SPREADSHEET_ID, feeds, ended, sheet, run, src, feed, got, loaded, calls, failed,
                  out, faults >>

\* ws.append_rows(rows, value_input_option="USER_ENTERED"): the batch goes
\* below the last row of the table, in one request.
AppendedGrid(grid, batch) == grid \o batch

\* Line 180.
AppendRows ==
  /\ pc = "append"
  /\ calls' = Append(calls, "append_rows")
  /\ \/ /\ sheet' = [sheet EXCEPT !.grid = AppendedGrid(@, rows)]
        /\ pc' = "sort"
        /\ UNCHANGED << faults, failed >>
     \/ /\ MayFail                       \* the request fails: collect() raises
        /\ faults' = faults + 1
        /\ failed' = Append(failed, "append_rows")
        /\ pc' = "raised"
        /\ UNCHANGED sheet
  /\ UNCHANGED << SPREADSHEET_ID, feeds, ended, now, run, locals, out >>

\* SortAfterAppend without the try/except of lines 182-185.
SortAfterAppendFatal ==
  /\ pc = "sort"
  /\ calls' = Append(calls, "sort")
  /\ \/ /\ sheet' = [sheet EXCEPT !.grid = SortSheet(@, sheet.frozen)]
        /\ pc' = "print"
        /\ UNCHANGED << faults, failed >>
     \/ /\ MayFail
        /\ faults' = faults + 1
        /\ failed' = Append(failed, "sort")
        /\ pc' = "raised"
        /\ UNCHANGED sheet
  /\ UNCHANGED << SPREADSHEET_ID, feeds, ended, now, run, locals, out >>

\* Lines 182-185.
SortAfterAppend ==
  /\ pc = "sort"
  /\ calls' = Append(calls, "sort")
  /\ \/ /\ sheet' = [sheet EXCEPT !.grid = SortSheet(@, sheet.frozen)]
        /\ UNCHANGED << faults, failed >>
     \/ /\ MayFail                       \* the request fails: swallowed
        /\ faults' = faults + 1
        /\ failed' = Append(failed, "sort")
        /\ UNCHANGED sheet
  /\ pc' = "print"
  /\ UNCHANGED << SPREADSHEET_ID, feeds, ended, now, run, locals, out >>

\* The process is stopped (the job cancelled, the machine lost) when
\* append_rows of line 180 has returned and sort of line 183 is not yet issued.
StoppedBeforeSort ==
  /\ pc = "sort"
  /\ MayFail
  /\ faults' = faults + 1
  /\ pc' = "killed"
  /\ UNCHANGED << SPREADSHEET_ID, feeds, ended, sheet, now, run, locals, calls, failed, out >>

\* Line 187.
PrintSummary ==
  /\ pc = "print"
  /\ out' = Append(out, Len(rows))
  /\ pc' = "done"
  /\ UNCHANGED << SPREADSHEET_ID, feeds, ended, sheet, now, run, locals, calls, failed, faults >>

\* The process has ended (returned, raised or stopped); the job is started again,
\* against the same sheet and the same feed snapshot.
NextRun ==
  /\ pc \in {"done", "raised", "killed"}
  /\ run < MaxRuns
  /\ run' = run + 1
  /\ pc' = "start"
  /\ existing_titles' = {} /\ existing_links' = {} /\ seen_links' = {}
  /\ rows' = <<>> /\ src' = 0 /\ feed' = <<>> /\ k' = 1
  /\ got' = <<>> /\ taken' = <<>> /\ loaded' = NotLoaded
  /\ calls' = <<>> /\ failed' = <<>>
  /\ ended' = Append(ended, pc)
  /\ UNCHANGED << SPREADSHEET_ID, feeds, sheet, now, out, faults >>

Next ==
  \/ CheckConfig
  \/ AuthSheet
  \/ AuthSheetRaises
  \/ LoadIndex
  \/ FetchFeed
  \/ ProcessEntry
  \/ AppendRows
  \/ SortAfterAppend
  \/ StoppedBeforeSort
  \/ PrintSummary
  \/ NextRun

(***************************************************************************)
(* Inputs: the worksheet before the first run and the feed snapshot.       *)
(***************************************************************************)
HeaderRow == [c \in 1..Len(HEADERS) |-> Txt(HEADERS[c])]

\* A row an earlier run wrote.
HistRow(t, title, link) ==
  << Tm(t), Txt(title), Txt(<<>>), Txt(make_hyperlink(link)), Txt(<<"old">>) >>

Link1 == <<"http://", "a.com", "/1">>
Link2 == <<"http://", "www.", "b.com", "/2">>
Link3 == <<"https://", "c.com", "/", "\"", "q", "\"">>
Link4 == <<"https://", "e.com">>
Link5 == <<"http://", "m.", "www.", "b.com", "/2">>

Sheet(cols, frozen, grid) ==
  [exists |-> TRUE, cols |-> cols, frozen |-> frozen, grid |-> grid]

\* No worksheet of that name yet.
SheetMissing == [exists |-> FALSE, cols |-> 0, frozen |-> 0, grid |-> <<>>]
\* The header alone, as the first run leaves a new sheet.
SheetFresh == Sheet(NewSheetCols, 1, <<HeaderRow>>)
\* Two rows of history.
SheetCD ==
  Sheet(NewSheetCols, 1,
        <<HeaderRow, HistRow(600, <<"D">>, Link3), HistRow(601, <<"C">>, Link4)>>)
\* Three rows of history.
SheetACD ==
  Sheet(NewSheetCols, 1,
        <<HeaderRow, HistRow(600, <<"A">>, Link1), HistRow(601, <<"D">>, Link3),
          HistRow(602, <<"C">>, <<>>)>>)
\* A title cell somebody left holding one blank, between two titles.
SheetBlank ==
  Sheet(NewSheetCols, 1,
        <<HeaderRow, HistRow(600, <<"A">>, Link1), HistRow(601, <<" ">>, <<>>),
          HistRow(602, <<"C">>, <<>>)>>)
\* Another layout: other headers, a sixth column in use, nothing frozen.
SheetOther ==
  Sheet(6, 0,
        << <<Txt(<<"date">>), Txt(<<"title">>), Txt(<<"link">>), Txt(<<>>), Txt(<<>>),
             Txt(<<"note">>)>>,
           <<Tm(600), Txt(<<"A">>), Txt(<<>>), Txt(Link1), Txt(<<>>), Txt(<<"x">>)>> >>)
\* The configured headers with a sixth column in use.
SheetSixth ==
  Sheet(6, 1, << HeaderRow \o <<Txt(<<"note">>)>>, HistRow(600, <<"A">>, Link1) >>)

WindowSheets == {SheetACD, SheetBlank}
SchemaSheets == {SheetMissing, SheetFresh, SheetOther, SheetSixth}

Plain(title, link) == RawEntry(title, link, <<>>, <<>>, <<>>, Pub("ok", 0))
Undated(title, link) == RawEntry(title, link, <<>>, <<>>, <<>>, Pub("none", 0))

\* Entries that share titles and links with each other.
DedupPool == { Plain(<<"A">>, Link2), Plain(<<"A">>, Link1), Plain(<<"B">>, Link1) }

\* Feeds that also hold an entry with no link and no publish time, its title
\* one of SheetCD (C) or a new one (E).
HistoryFeeds ==
  { << Plain(<<"A">>, Link2), Plain(<<"A">>, Link1), Undated(<<"C">>, <<>>),
       Plain(<<"B">>, Link1) >>,
    << Undated(<<"C">>, <<>>), Plain(<<"A">>, Link2), Plain(<<"A">>, Link1),
       Plain(<<"B">>, Link1) >>,
    << Undated(<<"E">>, <<>>), Plain(<<"A">>, Link2), Plain(<<"B">>, Link1),
       Plain(<<"A">>, Link1) >> }

\* Entries that differ in what the normalisation reads.
NormTitles ==
  { <<>>, <<" ">>, <<" ", "A", " ">>, <<"A", " ", " ", "B">>, <<"A", " ", "B">>,
    <<"A", "&amp;", "B">> }
NormLinks ==
  { <<>>, Link1, Link3, Link5, <<" ">> \o Link2 \o <<" ">>, <<"ftp://", "d.com">>,
    <<"d.com", "/1">> }
NormPubs == { Pub("none", 0), Pub("bad", 0), Pub("ok", 0), Pub("ok", 1) }
NormPool ==
  { RawEntry(<<"A">>, l, i, ls, <<"<", "b", ">", "s", "<", "/", "b", ">", " ">>,
             Pub("ok", 0)) :
      l \in NormLinks, i \in {<<>>, Link3}, ls \in {<<>>, <<Link2>>} }
  \cup { RawEntry(t, Link1, <<>>, <<>>, <<>>, p) : t \in NormTitles, p \in NormPubs }

\* The sequences of at most n entries of S, none twice.
RECURSIVE Arrangements(_, _)
Arrangements(S, n) ==
  IF n = 0 THEN {<<>>}
  ELSE {<<>>} \cup UNION { {<<x>> \o q : q \in Arrangements(S \ {x}, n - 1)} : x \in S }

\* The ways to cut the sequence q into the feeds of n sources.
RECURSIVE Splits(_, _)
Splits(q, n) ==
  IF n = 1 THEN {<<q>>}
  ELSE UNION { {Append(f, SubSeq(q, c + 1, Len(q))) : f \in Splits(SubSeq(q, 1, c), n - 1)} :
               c \in 0..Len(q) }

\* The feed snapshots with at most n entries of the pool in all, none twice.
Snapshots(pool, n) == UNION {Splits(q, NumSources) : q \in Arrangements(pool, n)}

\* The feed snapshots that hold the first n entries of one of the sequences.
SnapshotsOf(seqs, n) == UNION {Splits(SubSeq(q, 1, n), NumSources) : q \in seqs}

\* One entry, in the first source.
OneEntry(pool) ==
  {[s \in 1..NumSources |-> IF s = 1 THEN <<e>> ELSE <<>>] : e \in pool}

\* The same entry in every source.
Everywhere(e) == [s \in 1..NumSources |-> <<e>>]

Inputs ==
  [id : {TRUE}, sheet : {SheetCD},
   feeds : Snapshots(DedupPool, MaxEntries) \cup SnapshotsOf(HistoryFeeds, MaxEntries)]
  \cup [id : {TRUE}, sheet : WindowSheets,
        feeds : OneEntry({Plain(<<"A">>, Link2), Undated(<<"C">>, <<>>)})]
  \cup [id : {TRUE}, sheet : SchemaSheets, feeds : {Everywhere(Plain(<<"A">>, Link1))}]
  \cup [id : {TRUE}, sheet : {SheetFresh}, feeds : OneEntry(NormPool)]
  \cup [id : {FALSE}, sheet : {SheetMissing, SheetCD},
        feeds : {Everywhere(Plain(<<"A">>, Link1))}]

Init ==
  /\ \E in \in Inputs :
       /\ SPREADSHEET_ID = in.id
       /\ sheet = in.sheet
       /\ feeds = in.feeds
  /\ now = 0
  /\ run = 1
  /\ pc = "start"
  /\ existing_titles = {} /\ existing_links = {} /\ seen_links = {}
  /\ rows = <<>> /\ src = 0 /\ feed = <<>> /\ k = 1
  /\ got = <<>> /\ taken = <<>> /\ loaded = NotLoaded
  /\ calls = <<>> /\ failed = <<>>
  /\ out = <<>>
  /\ ended = <<>>
  /\ faults = 0

Spec == Init /\ [][Next]_vars

(***************************************************************************)
(* Properties.                                                             *)
(***************************************************************************)
\* The raw entry behind the i-th row of the batch.
EntryOf(i) == got[taken[i][1]].entries[taken[i][2]]

\* The loop of line 158 is over.
LoopDone == pc \in {"append", "sort", "print", "done"}

\* The positions <<source, index>> of the entries fetched, in traversal order.
RECURSIVE Positions(_, _)
Positions(g, n) ==
  IF n = 0 THEN <<>>
  ELSE Positions(g, n - 1) \o [j \in 1..Len(g[n].entries) |-> <<n, j>>]

\* The positions a walk over ps admits, starting from the index (titles, links).
RECURSIVE Walk(_, _, _, _)
Walk(g, ps, titles, links) ==
  IF ps = <<>> THEN <<>>
  ELSE LET e == g[Head(ps)[1]].entries[Head(ps)[2]]
           t == Strip(e.title)
           l == Strip(e.link)
       IN IF t = <<>> \/ t \in titles \/ (l # <<>> /\ l \in links)
          THEN Walk(g, Tail(ps), titles, links)
          ELSE <<Head(ps)>>
                 \o Walk(g, Tail(ps), titles \cup {t},
                         IF l # <<>> THEN links \cup {l} ELSE links)

(* C9: when SPREADSHEET_ID is absent or empty, collect() raises before any   *)
(* call to the sheet or to a feed is issued: the sheet is never changed, no  *)
(* summary line is printed, and the run stands at its start or has raised.   *)
C9_FailFast ==
  /\ [](~SPREADSHEET_ID => calls = <<>> /\ out = <<>> /\ pc \in {"start", "raised"})
  /\ [][~SPREADSHEET_ID => sheet' = sheet]_vars

\* A run without the identifier has raised, the sheet holding its history.
C9_Witness == ~SPREADSHEET_ID /\ pc = "raised" /\ Len(sheet.grid) > 1

(* C6, as stated: after auth_sheet the first row is exactly HEADERS, the     *)
(* sheet has the five configured columns and no more, and no header write    *)
(* was issued when the first row already equalled HEADERS.                   *)
C6_Original ==
  [][(pc = "auth" /\ pc' = "load") =>
       /\ sheet'.grid[1] = HeaderRow
       /\ sheet'.cols = Len(HEADERS)
       /\ (HeaderValues(sheet.grid) = HEADERS => "update" \notin InRange(calls'))]_vars

(* C6, amended: after auth_sheet the cells A1..E1 equal HEADERS; the column  *)
(* count (NewSheetCols for a sheet just created) and every cell outside      *)
(* A1:E1 are as they were; a header write is issued exactly when A1:E1       *)
(* differed from HEADERS.                                                    *)
C6_HeaderEnforced ==
  [][(pc = "auth" /\ pc' = "load") =>
       LET old == IF sheet.grid = <<>> THEN <<>> ELSE sheet.grid[1]
           new == sheet'.grid[1]
       IN /\ sheet'.exists
          /\ \A c \in 1..Len(HEADERS) : new[c] = Txt(HEADERS[c])
          /\ \A c \in (Len(HEADERS) + 1)..sheet'.cols : CellAt(new, c) = CellAt(old, c)
          /\ Tail(sheet'.grid) = (IF sheet.grid = <<>> THEN <<>> ELSE Tail(sheet.grid))
          /\ sheet'.cols = (IF sheet.exists THEN sheet.cols ELSE NewSheetCols)
          /\ ("update" \in InRange(calls')) <=> (HeaderValues(sheet.grid) # HEADERS)]_vars

\* auth_sheet has rewritten the header of a sheet that keeps its sixth column.
C6_Witness ==
  /\ pc = "load" /\ "update" \in InRange(calls)
  /\ sheet.cols = 6 /\ CellAt(sheet.grid[1], 6) = Txt(<<"note">>)

\* C7 reads a title as: entities decoded, whitespace runs collapsed, trimmed.
RECURSIVE CollapseSpaces(_)
CollapseSpaces(s) ==
  IF Len(s) < 2 THEN s
  ELSE IF IsSpace(s[1]) /\ IsSpace(s[2]) THEN CollapseSpaces(Tail(s))
  ELSE <<Head(s)>> \o CollapseSpaces(Tail(s))

NormalizedTitle(s) == Strip(CollapseSpaces(Replace(s, "&amp;", <<"&">>)))

(* C7, as stated: the title of every admitted item is the raw title with     *)
(* entities decoded, every run of whitespace collapsed to one space and the  *)
(* ends trimmed, and it is not empty.  Titles that hold an entity are left   *)
(* aside here: the parser hands titles over with their entities decoded.     *)
C7_Original ==
  \A i \in DOMAIN rows :
    "&amp;" \notin InRange(EntryOf(i).title) =>
      rows[i][2].s = NormalizedTitle(EntryOf(i).title) /\ rows[i][2].s # <<>>

(* C7, amended: the title of every admitted item is the raw title with its   *)
(* leading and trailing whitespace removed and nothing else changed (inner   *)
(* whitespace and entities stay as the parser delivered them); an entry      *)
(* whose trimmed title is empty is discarded; the title is stored and        *)
(* entered in the dedup index in that form.                                  *)
C7_StripOnly ==
  /\ Len(rows) = Len(taken)
  /\ \A i \in DOMAIN rows :
       /\ rows[i][2] = Txt(Strip(EntryOf(i).title))
       /\ Strip(EntryOf(i).title) # <<>>
       /\ Strip(EntryOf(i).title) \in existing_titles

\* A title with two inner blanks is in the batch as it came.
C7_Witness ==
  \E i \in DOMAIN rows :
    EntryOf(i).title = <<"A", " ", " ", "B">> /\ rows[i][2].s = <<"A", " ", " ", "B">>

\* C8 reads the link as the first candidate that starts with http:// or https://.
IsHttp(s) == s # <<>> /\ Head(s) \in SchemeTokens

RECURSIVE FirstHttp(_)
FirstHttp(cands) ==
  IF cands = <<>> THEN <<>>
  ELSE IF IsHttp(Strip(Head(cands))) THEN Strip(Head(cands))
  ELSE FirstHttp(Tail(cands))

ResolvedLink(e) == FirstHttp(<<e.link, e.id>> \o e.links)

(* C8, as stated: the link of an item is the first of the entry's direct     *)
(* link, its identifier and its link records that begins with an HTTP(S)     *)
(* scheme, and empty when none does.                                         *)
C8_Original ==
  \A i \in DOMAIN rows : rows[i][4].s = make_hyperlink(ResolvedLink(EntryOf(i)))

(* C8, amended: the link of an item is the entry's direct link field with    *)
(* its surrounding whitespace removed, whatever its scheme; the identifier   *)
(* and the link records are never read, so the link is empty when the        *)
(* direct link is absent or blank, and the direct link is chosen when all    *)
(* three are present.                                                        *)
C8_DirectLinkOnly ==
  \A i \in DOMAIN rows :
    LET l == Strip(EntryOf(i).link)
    IN /\ rows[i][4].s = make_hyperlink(l)
       /\ l # <<>> => l \in seen_links /\ l \in existing_links

\* An entry with no direct link and an http identifier is in the batch with
\* an empty link cell.
C8_Witness ==
  \E i \in DOMAIN rows :
    /\ Strip(EntryOf(i).link) = <<>> /\ IsHttp(EntryOf(i).id)
    /\ rows[i][4].s = <<>>

(* C10: an entry is admitted or skipped by its title and link alone, and     *)
(* processing it never raises; the timestamp cell of an admitted entry is    *)
(* its publish time plus nine hours when that time is valid, and otherwise   *)
(* (absent, or rejected by the conversion) the clock's time plus nine hours. *)
C10_TimestampFallback ==
  [][pc = "entries" =>
       LET e == feed[k]
           title == Strip(e.title)
           link == Strip(e.link)
           dup == \/ title \in existing_titles
                  \/ link # <<>> /\ (link \in existing_links \/ link \in seen_links)
           admitted == rows' # rows
       IN /\ pc' # "raised"
          /\ admitted <=> (title # <<>> /\ ~dup)
          /\ admitted =>
               /\ now' >= now
               /\ rows' = Append(rows, rows'[Len(rows')])
               /\ rows'[Len(rows')][1] =
                    Tm((IF e.published.kind = "ok" THEN e.published.t ELSE now')
                       + KstOffset)]_vars

\* An entry whose publish time the conversion rejects is in the batch with the
\* clock's time, which is not the time of its tuple.
C10_Witness ==
  \E i \in DOMAIN rows :
    /\ EntryOf(i).published.kind = "bad"
    /\ now # EntryOf(i).published.t
    /\ rows[i][1] = Tm(now + KstOffset)

IndexFresh == loaded.done /\ pc \in {"fetch", "entries", "append"}

\* The last DEDUP_LIMIT titles of the sheet's history, as the cells hold them.
HistoryWindowTitles(grid) ==
  InRange(LastN(NonEmpty(ColValuesBelowHeader(grid, 2)), DEDUP_LIMIT))

RowTitlesDistinct ==
  \A i, j \in DOMAIN rows : i # j => rows[i][2].s # rows[j][2].s

Earlier(p, q) == p[1] < q[1] \/ (p[1] = q[1] /\ p[2] < q[2])

EntryAt(p) == got[p[1]].entries[p[2]]
AllPositions == InRange(Positions(got, Len(got)))
IsTaken(p) == \E i \in DOMAIN taken : taken[i] = p

\* Two entries share a title or a non-empty link.
Shares(a, b) ==
  \/ Strip(a.title) = Strip(b.title)
  \/ Strip(a.link) # <<>> /\ Strip(a.link) = Strip(b.link)

\* The loaded index holds neither the entry's title nor its link.
NotInHistory(e) ==
  /\ Strip(e.title) \notin loaded.titles
  /\ Strip(e.link) = <<>> \/ Strip(e.link) \notin loaded.links

\* The entries the claim is about: with a title, and new to the history.
Candidates == {p \in AllPositions : Strip(EntryAt(p).title) # <<>> /\ NotInHistory(EntryAt(p))}

\* Of a group of two or more, exactly the first in traversal order is taken.
FirstOnly(G) ==
  Cardinality(G) >= 2 =>
    \A p \in G : IsTaken(p) <=> (\A q \in G : q = p \/ Earlier(p, q))

(* C3, as stated: of the entries of one run that share a title, or share a   *)
(* non-empty link, exactly one is appended: the first in traversal order.    *)
C3_Original ==
  LoopDone =>
    \A p \in Candidates :
      /\ FirstOnly({q \in Candidates : Strip(EntryAt(q).title) = Strip(EntryAt(p).title)})
      /\ Strip(EntryAt(p).link) # <<>> =>
           FirstOnly({q \in Candidates : Strip(EntryAt(q).link) = Strip(EntryAt(p).link)})

(* C3, amended: an entry with a title is appended unless the loaded index    *)
(* holds its title or its non-empty link, or an entry appended earlier in    *)
(* the run shares its title or its non-empty link; an entry that was         *)
(* skipped suppresses nothing.  So of the entries sharing a title or a       *)
(* non-empty link at most one is appended, the batch follows the traversal   *)
(* order, and the first of them in that order is the one appended whenever   *)
(* it is appended at all (as in the two-source example).                     *)
C3_FirstAdmittedWins ==
  /\ \A i, j \in DOMAIN taken :
       i < j => Earlier(taken[i], taken[j]) /\ ~Shares(EntryOf(i), EntryOf(j))
  /\ LoopDone =>
       \A p \in AllPositions :
         IsTaken(p) <=>
           /\ Strip(EntryAt(p).title) # <<>>
           /\ NotInHistory(EntryAt(p))
           /\ ~\E i \in DOMAIN taken :
                Earlier(taken[i], p) /\ Shares(EntryOf(i), EntryAt(p))

\* The two-source example: the same title with different links in the first
\* and in the second source; the first is in the batch, the second is not.
C3_Witness ==
  /\ LoopDone /\ Len(got) = 2
  /\ \E i \in DOMAIN got[1].entries : \E j \in DOMAIN got[2].entries :
       /\ Strip(got[1].entries[i].title) = Strip(got[2].entries[j].title)
       /\ Strip(got[1].entries[i].link) # Strip(got[2].entries[j].link)
       /\ Strip(got[2].entries[j].link) # <<>>
       /\ IsTaken(<<1, i>>) /\ ~IsTaken(<<2, j>>)

\* C5 reads the window as: trim each value, drop the empty ones, keep the last.
ClaimedWindow(values, limit) == InRange(LastN(NonEmpty(MapStrip(values)), limit))

(* C5, as stated (for loads whose reads succeed): the title set and the link *)
(* set of get_existing_sets are the last DEDUP_LIMIT values of their column  *)
(* that remain after trimming each value and dropping the empty ones.        *)
C5_Claim ==
  (IndexFresh /\ loaded.titlesOK /\ loaded.formulasOK) =>
    /\ loaded.titles = ClaimedWindow(ColValuesBelowHeader(sheet.grid, 2), DEDUP_LIMIT)
    /\ loaded.links =
         ClaimedWindow(MapParse(FormulasBelowHeader(sheet.grid, 4)), DEDUP_LIMIT)

(* C1, as stated (for runs with no I/O failure, so that every source returns *)
(* the same entries both times): when collect() has run twice, the second    *)
(* run reports inserted=0.                                                   *)
C1_Idempotent ==
  (run = 2 /\ pc = "done" /\ faults = 0 /\ Len(out) = 2) => out[2] = 0

\* The entry at hand is skipped: the batch stays as it is.
Skipped == taken' = taken /\ rows' = rows

\* The entry at hand is admitted: it is the new last row of the batch.
Admitted == taken' = Append(taken, <<src, k>>) /\ Len(rows') = Len(rows) + 1

(* C11: an entry with a non-empty title is skipped if and only if its title  *)
(* is in existing_titles, or its link is non-empty and is in existing_links  *)
(* or in seen_links, and it is admitted otherwise; so a title match rejects  *)
(* whatever the link is, and an entry with an empty link and a fresh title   *)
(* is always admitted.                                                       *)
C11_AdmitRuleExact ==
  [][pc = "entries" =>
       LET title == Strip(feed[k].title)
           link == Strip(feed[k].link)
           titleMatch == title \in existing_titles
           linkMatch == link # <<>> /\ (link \in existing_links \/ link \in seen_links)
       IN title # <<>> =>
            /\ Skipped <=> (titleMatch \/ linkMatch)
            /\ Admitted <=> ~(titleMatch \/ linkMatch)
            /\ titleMatch => Skipped
            /\ (link = <<>> /\ ~titleMatch) => Admitted]_vars

\* In one run an entry was skipped for its title alone (its link is in no
\* link set) and an entry with an empty link was admitted.
C11_Witness ==
  /\ LoopDone
  /\ \E p \in AllPositions :
       /\ ~IsTaken(p)
       /\ Strip(EntryAt(p).link) # <<>>
       /\ Strip(EntryAt(p).link) \notin existing_links \cup seen_links
       /\ \E i \in DOMAIN taken :
            Earlier(taken[i], p) /\ Strip(EntryOf(i).title) = Strip(EntryAt(p).title)
  /\ \E i \in DOMAIN taken : Strip(EntryOf(i).link) = <<>> /\ rows[i][4] = Txt(<<>>)

\* The rows below row 1 are in the order of an ascending sort on column A.
BodySorted(grid) ==
  \A i, j \in 2..Len(grid) :
    i < j => ~SortLess(CellAt(grid[j], 1), CellAt(grid[i], 1))

\* The last n rows of the grid.
LastRows(grid, n) == SubSeq(grid, Len(grid) - n + 1, Len(grid))

\* This run follows one that was stopped between the append and the sort.
AfterStoppedRun == ended # <<>> /\ ended[Len(ended)] = "killed"

(* C12, as stated: a run stopped after append_rows and before sort leaves    *)
(* all the appended rows in the sheet, and when the next run has completed   *)
(* the rows below the header are sorted ascending on the timestamp column.   *)
C12_Original ==
  /\ pc = "killed" => Len(sheet.grid) > Len(rows) /\ LastRows(sheet.grid, Len(rows)) = rows
  /\ (AfterStoppedRun /\ pc = "done") => BodySorted(sheet.grid)

(* C12, amended: a run stopped after append_rows and before sort leaves all  *)
(* the appended rows at the end of the sheet, in the order of the batch.     *)
(* The sort is issued again only by a run that appends: a later run whose    *)
(* batch is empty issues no sort and leaves the sheet's rows as they are,    *)
(* and a later run that appends and whose sort succeeds leaves the rows      *)
(* below the header sorted ascending on the timestamp column, none lost.     *)
C12_SortOnlyAfterAppend ==
  /\ [](pc = "killed" =>
          /\ rows # <<>> /\ Len(sheet.grid) > Len(rows)
          /\ LastRows(sheet.grid, Len(rows)) = rows)
  /\ []((pc \in {"print", "done"} /\ rows = <<>>) =>
          "sort" \notin InRange(calls) /\ "append_rows" \notin InRange(calls))
  /\ [][/\ (pc \notin {"auth", "append", "sort"}) => sheet' = sheet
        /\ (pc = "sort" /\ pc' = "print" /\ faults' = faults) =>
             /\ BodySorted(sheet'.grid)
             /\ Len(sheet'.grid) = Len(sheet.grid)
             /\ InRange(sheet'.grid) = InRange(sheet.grid)
             /\ SubSeq(sheet'.grid, 1, sheet.frozen) = SubSeq(sheet.grid, 1, sheet.frozen)
        /\ (pc = "sort" /\ pc' = "print" /\ faults' # faults) => sheet' = sheet]_vars

\* A run was stopped before its sort; the next run appended, sorted and
\* completed, and the sheet holds the rows of both runs, in order.
C12_Witness ==
  /\ AfterStoppedRun /\ pc = "done"
  /\ rows # <<>> /\ "sort" \in InRange(calls)
  /\ InRange(rows) \subseteq InRange(sheet.grid)
  /\ Len(sheet.grid) > Len(SheetCD.grid) + Len(rows)
  /\ BodySorted(sheet.grid)

\* The calls that change the sheet below its header, as the run issued them.
RECURSIVE WritebackCalls(_)
WritebackCalls(cs) ==
  IF cs = <<>> THEN <<>>
  ELSE (IF Head(cs) \in {"append_rows", "sort", "restyle"} THEN <<Head(cs)>> ELSE <<>>)
         \o WritebackCalls(Tail(cs))

\* The calls of the run after the last fetch of a feed.
RECURSIVE AfterLastParse(_)
AfterLastParse(cs) ==
  IF "parse" \notin InRange(cs) THEN cs ELSE AfterLastParse(Tail(cs))

\* The run has got through its writeback without a failure.
WritebackDone == pc = "done" /\ rows # <<>> /\ faults = 0

(* C13, as stated: a run with a non-empty batch issues append_rows, then     *)
(* sort, then the restyling, in that order and after the loop over the feeds *)
(* has finished; no row is written before every source has been processed.   *)
C13_Original ==
  /\ WritebackDone => WritebackCalls(calls) = <<"append_rows", "sort", "restyle">>
  /\ WritebackCalls(calls) # <<>> => Len(got) = NumSources /\ pc \notin {"fetch", "entries"}

(* C13, amended: a run with a non-empty batch issues append_rows once and    *)
(* then sort once, and nothing after them (there is no restyling step);      *)
(* both come after the last feed has been fetched and its last entry         *)
(* processed; until then the run writes nothing to the sheet but the header  *)
(* cells of auth_sheet, and a run with an empty batch issues neither.        *)
C13_AppendThenSort ==
  /\ [](/\ WritebackCalls(calls) \in {<<>>, <<"append_rows">>, <<"append_rows", "sort">>}
        /\ WritebackCalls(calls) # <<>> =>
             /\ Len(got) = NumSources /\ src = NumSources /\ k = Len(feed) + 1
             /\ pc \in {"sort", "print", "done", "raised", "killed"}
             /\ rows # <<>>
             /\ WritebackCalls(AfterLastParse(calls)) = WritebackCalls(calls)
        /\ (pc \in {"print", "done"} /\ rows # <<>>) =>
             /\ WritebackCalls(calls) = <<"append_rows", "sort">>
             /\ AfterLastParse(calls) = <<"append_rows", "sort">>
        /\ (pc \in {"print", "done"} /\ rows = <<>>) => WritebackCalls(calls) = <<>>)
  /\ [][/\ pc \in {"load", "fetch", "entries"} => sheet' = sheet
        /\ pc = "auth" =>
             \A i \in 2..Len(sheet.grid) :
               i <= Len(sheet'.grid) /\ sheet'.grid[i] = sheet.grid[i]]_vars

\* A run with entries in both sources has appended and sorted after the loop.
C13_Witness ==
  /\ WritebackDone
  /\ Len(got) = NumSources /\ \A s \in DOMAIN got : got[s].entries # <<>>
  /\ AfterLastParse(calls) = <<"append_rows", "sort">>
  /\ InRange(rows) \subseteq InRange(sheet.grid)

\* The call that failed last in this run.
LastFailed == failed[Len(failed)]

(* C14: a failure of the header freeze or of the sort after the append is    *)
(* swallowed: the run goes on, and when it completes it reports the          *)
(* inserted count with the appended rows in the sheet (at its end, in batch  *)
(* order, when it was the sort that failed).  A failure of append_rows       *)
(* aborts the run: it raises with the sheet as it was, no sort is issued     *)
(* and no summary line is printed.  Only a failure of append_rows or of      *)
(* opening the sheet makes a configured run raise.                           *)
C14_FatalVersusBestEffort ==
  /\ [](/\ (SPREADSHEET_ID /\ pc = "raised") =>
             failed # <<>> /\ LastFailed \in {"open", "append_rows"}
        /\ "append_rows" \in InRange(failed) =>
             /\ pc = "raised"
             /\ "sort" \notin InRange(calls)
             /\ calls[Len(calls)] = "append_rows"
        /\ pc = "done" =>
             /\ out # <<>> /\ out[Len(out)] = Len(rows)
             /\ InRange(rows) \subseteq InRange(sheet.grid)
             /\ "sort" \in InRange(failed) =>
                  rows # <<>> /\ LastRows(sheet.grid, Len(rows)) = rows)
  /\ [][/\ (Len(failed') > Len(failed) /\ failed'[Len(failed')] = "freeze") =>
             pc' = "load" /\ Tail(sheet'.grid) = Tail(UpdateHeader(sheet.grid))
        /\ (Len(failed') > Len(failed) /\ failed'[Len(failed')] = "sort") =>
             pc' = "print" /\ sheet' = sheet
        /\ (Len(failed') > Len(failed) /\ failed'[Len(failed')] = "append_rows") =>
             pc' = "raised" /\ sheet' = sheet
        /\ out' # out => pc' = "done" /\ "append_rows" \notin InRange(failed)
        /\ pc = "raised" => pc' = "start" /\ out' = out /\ sheet' = sheet]_vars

\* The sort failed after an append that left the sheet out of order; the run
\* has completed and reported its count.
C14_Witness ==
  /\ pc = "done" /\ failed = <<"sort">>
  /\ rows # <<>> /\ out[Len(out)] = Len(rows)
  /\ LastRows(sheet.grid, Len(rows)) = rows
  /\ ~BodySorted(sheet.grid)

\* The links a load of the index reads from the whole link column.
LinksOfSheet(grid) == get_existing_sets(grid, Len(grid), TRUE, TRUE, TRUE).links

(* C15, as stated: for every non-empty link L that a run writes as a display *)
(* formula, decoding the cell gives L itself, so that a load of the index    *)
(* from the sheet that holds the cell has L among its links.                 *)
C15_RoundTrip ==
  \A i \in DOMAIN rows :
    LET L == Strip(EntryOf(i).link)
    IN L # <<>> =>
         /\ rows[i][4].s = make_hyperlink(L)
         /\ parse_hyperlink_formula(rows[i][4].s) = L
         /\ pc \in {"sort", "print", "done"} => L \in LinksOfSheet(sheet.grid)

\* C16 reads the label as the host with a leading "www." removed.
ClaimedLabel(url) ==
  IF Netloc(url) # <<>> /\ Head(Netloc(url)) = "www." THEN Tail(Netloc(url))
  ELSE Netloc(url)

\* The number of double quotes in a string.
RECURSIVE Quotes(_)
Quotes(s) ==
  IF s = <<>> THEN 0 ELSE (IF Head(s) = "\"" THEN 1 ELSE 0) + Quotes(Tail(s))

(* C16, as stated (for links that have a host): the link cell of an item     *)
(* with a non-empty link is the formula that pairs the URL with the URL's    *)
(* host less a leading "www.", the host otherwise unchanged, the quotes in   *)
(* both escaped so that the formula has two quoted arguments and no other    *)
(* quote; the cell of an item with an empty link is empty.                   *)
C16_Claim ==
  \A i \in DOMAIN rows :
    LET L == Strip(EntryOf(i).link)
        cell == rows[i][4].s
    IN /\ L = <<>> => cell = <<>>
       /\ (L # <<>> /\ Netloc(L) # <<>>) =>
            /\ cell = <<"=HYPERLINK(", "\"">> \o Replace(L, "\"", <<"%22">>)
                        \o <<"\"", ",", "\"">>
                        \o Replace(ClaimedLabel(L), "\"", <<"'">>) \o <<"\"", ")">>
            /\ Quotes(cell) = 4

\* The rows of the sheet below row 1.
Body(grid) == IF grid = <<>> THEN <<>> ELSE Tail(grid)

\* The number of calls of that name the run has issued.
RECURSIVE CountCalls(_, _)
CountCalls(cs, name) ==
  IF cs = <<>> THEN 0
  ELSE (IF Head(cs) = name THEN 1 ELSE 0) + CountCalls(Tail(cs), name)

(* C17: the batch holds one row for each admitted entry and no other, in the *)
(* order of admission; a row has the five cells timestamp, title, summary,   *)
(* link cell and tag of its entry, its title not empty.  The batch is handed *)
(* to append_rows whole, in at most one call, and the count reported is its  *)
(* length.  When no entry is admitted the run issues no append and no sort   *)
(* and leaves the rows below the header as they were.                        *)
C17_BatchShape ==
  /\ [](/\ Len(rows) = Len(taken)
        /\ \A i \in DOMAIN rows :
             LET e == EntryOf(i)
             IN /\ Len(rows[i]) = Len(HEADERS)
                /\ rows[i][1].k = "time"
                /\ rows[i][1].t \in {e.published.t + KstOffset} \cup
                                    {c + KstOffset : c \in 0..now}
                /\ rows[i][2] = Txt(Strip(e.title)) /\ rows[i][2].s # <<>>
                /\ rows[i][3] = Txt(strip_html(e.summary))
                /\ rows[i][4] = Txt(make_hyperlink(Strip(e.link)))
                /\ rows[i][5] = Txt(<<rss_urls[taken[i][1]]>>)
        /\ \A i, j \in DOMAIN taken : i < j => Earlier(taken[i], taken[j])
        /\ CountCalls(calls, "append_rows") <= 1
        /\ pc \in {"append", "sort"} => rows # <<>>
        /\ pc = "done" => out # <<>> /\ out[Len(out)] = Len(rows)
        /\ (pc \in {"print", "done"} /\ rows = <<>>) =>
             CountCalls(calls, "append_rows") = 0 /\ CountCalls(calls, "sort") = 0)
  /\ [][/\ (pc = "append" /\ pc' = "sort") =>
             rows' = rows /\ sheet'.grid = sheet.grid \o rows
        /\ pc \in {"sort", "print"} => rows' = rows
        /\ pc = "auth" => Body(sheet'.grid) = Body(sheet.grid)
        /\ pc \notin {"auth", "append", "sort"} => Body(sheet'.grid) = Body(sheet.grid)]_vars

\* A run has completed with a batch of two rows, one from each source, and
\* with an entry it skipped; it has reported 2.
C17_Witness ==
  /\ pc = "done" /\ Len(rows) = 2 /\ out[Len(out)] = 2
  /\ taken[1][1] = 1 /\ taken[2][1] = 2
  /\ \E p \in AllPositions : ~IsTaken(p)
  /\ InRange(rows) \subseteq InRange(sheet.grid)

\* The three sets of the dedup index are as they were.
IndexUnchanged ==
  /\ existing_titles' = existing_titles
  /\ existing_links' = existing_links
  /\ seen_links' = seen_links

(* C18: within a run existing_titles, existing_links and seen_links only     *)
(* grow; once loaded they change only when an entry is admitted, which adds  *)
(* its title and, when it has one, its link (to both link sets), and a       *)
(* skipped entry leaves the three as they are; seen_links is a subset of     *)
(* existing_links in every state, so that the test of seen_links rejects no  *)
(* entry the test of existing_links would let through.                       *)
C18_IndexMonotone ==
  /\ [](seen_links \subseteq existing_links)
  /\ [][/\ run' = run =>
             /\ existing_titles \subseteq existing_titles'
             /\ existing_links \subseteq existing_links'
             /\ seen_links \subseteq seen_links'
        /\ (run' = run /\ pc # "load") => (IndexUnchanged \/ Admitted)
        /\ pc = "load" => seen_links' = seen_links
        /\ (pc = "entries" /\ Skipped) => IndexUnchanged
        /\ (pc = "entries" /\ Admitted) =>
             LET title == Strip(feed[k].title)
                 link == Strip(feed[k].link)
                 new == IF link # <<>> THEN {link} ELSE {}
             IN /\ existing_titles' = existing_titles \cup {title}
                /\ existing_links' = existing_links \cup new
                /\ seen_links' = seen_links \cup new]_vars

\* The loop is over: entries were admitted with their links, one was skipped,
\* and the index holds links of the history besides those seen in the run.
C18_Witness ==
  /\ LoopDone
  /\ seen_links # {} /\ seen_links # existing_links
  /\ loaded.links # {} /\ loaded.links \subseteq existing_links
  /\ \E p \in AllPositions : ~IsTaken(p)

=============================================================================
